---- MODULE Spec2Model ----
(***************************************************************************)
(* Model of the migrate orchestrator (package migrate) and of the durable  *)
(* schema table it keeps.  Run is modelled statement by statement at the   *)
(* granularity of its calls to the database and to the handlers, so that   *)
(* a store failure or a process crash can fall between any two of them.    *)
(***************************************************************************)
EXTENDS Integers, Sequences, FiniteSets, TLC

\* ---------------------------------------------------------------- bounds
\* unit indices are 0..MaxIndex (GetIndex is an int; the data model has it >= 0)
MaxIndex == 2
\* the units given to one instance, directly and through its executors; a Run
\* also begins only while the m.handlers left on the instance is no longer
MaxUnits == 3
\* the executors given to one instance
MaxExecutors == 2
\* the units given to all instances together while two callers run concurrently
MaxConcUnits == 1

Indices == 0..MaxIndex
Callers == {1, 2}
Insts == {1, 2}
\* callers and instances that act in the sequential specification
SeqCallers == {1}
SeqInsts == {1}

VARIABLES
    tableExists,  \* the schema table has been created
    rows,         \* the rows of the schema table, each [version, dirty]
    executors,    \* per instance: m.executors
    handlers,     \* per instance: m.handlers (each handler is its GetIndex value)
    direct,       \* per instance: the handlers given to AddHandlers (history)
    ran,          \* per instance: a Run has begun on it (history)
    mutex,        \* per instance: the caller holding m.mutex, 0 when free
    pc,           \* per caller: position inside Run
    tgt,          \* per caller: the instance its Run is on
    idx,          \* per caller: Run's loop variable idx
    schema,       \* per caller: Run's local schema
    result,       \* per caller: what the last Run returned
    runLog,       \* per caller: the handler invocations of the current Run (history)
    start         \* per caller: the store as it was when the Run began (history)

storeVars == <<tableExists, rows>>
instVars == <<executors, handlers, direct, ran>>
callVars == <<pc, tgt, idx, schema, result, runLog, start>>
vars == <<tableExists, rows, executors, handlers, direct, ran, mutex,
          pc, tgt, idx, schema, result, runLog, start>>

\* ---------------------------------------------------------------- values
\* type schema struct: the zero value
ZeroSchema == [version |-> 0, dirty |-> FALSE]

\* what Run returns: a kind and the integers its message carries
NoResult == [kind |-> "none", val |-> {}]
Nil == [kind |-> "nil", val |-> {}]
Err(k, v) == [kind |-> k, val |-> v]

\* the store a Run found when it began, before any Run
NoStart == [table |-> FALSE, rows |-> <<>>, fresh |-> FALSE]

\* sequences over S of length 0..n
SeqsUpTo(S, n) == UNION {[1..m -> S] : m \in 0..n}

\* the Executors holding at most n handlers: each is what its ListHandlers
\* returns, a list of handlers or an error
SourcesUpTo(n) == {[units |-> u, err |-> FALSE] : u \in SeqsUpTo(Indices, n) \ {<<>>}}
                     \cup {[units |-> <<>>, err |-> TRUE]}

RECURSIVE Concat(_)
Concat(ss) == IF ss = <<>> THEN <<>> ELSE Head(ss) \o Concat(Tail(ss))

Range(s) == {s[j] : j \in 1..Len(s)}

\* ---------------------------------------------------------------- initHandlers
\* the collection that leaves out an executor whose ListHandlers fails and
\* goes on with the next
RECURSIVE CollectHandlers_SkipFailed(_, _)
CollectHandlers_SkipFailed(ex, h) ==
    IF ex = <<>> THEN [handlers |-> h, err |-> FALSE]
    ELSE IF Head(ex).err THEN CollectHandlers_SkipFailed(Tail(ex), h)
    ELSE CollectHandlers_SkipFailed(Tail(ex), h \o Head(ex).units)

\* step 1 of initHandlers: append every executor's handlers to m.handlers,
\* stopping at the first executor whose ListHandlers fails
RECURSIVE CollectHandlers(_, _)
CollectHandlers(ex, h) ==
    IF ex = <<>> THEN [handlers |-> h, err |-> FALSE]
    ELSE IF Head(ex).err THEN [handlers |-> h, err |-> TRUE]
    ELSE CollectHandlers(Tail(ex), h \o Head(ex).units)

\* the less function given to sort.Slice
Less(a, b) == a < b

RECURSIVE InsertSorted(_, _)
InsertSorted(x, s) ==
    IF s = <<>> THEN <<x>>
    ELSE IF Less(x, Head(s)) THEN <<x>> \o s
    ELSE <<Head(s)>> \o InsertSorted(x, Tail(s))

\* initHandlers without its sort
SortByIndex_Unsorted(h) == h

\* step 2 of initHandlers: sort.Slice(m.handlers, by GetIndex ascending)
RECURSIVE SortByIndex(_)
SortByIndex(h) ==
    IF h = <<>> THEN <<>> ELSE InsertSorted(Head(h), SortByIndex(Tail(h)))

\* the walk without its test for a gap of 0
RECURSIVE ValidateFrom_NoDuplicateTest(_, _)
ValidateFrom_NoDuplicateTest(h, i) ==
    IF i >= Len(h) THEN Nil
    ELSE LET gap == h[i + 1] - h[i] IN
         IF gap = 1 \/ gap = 0 THEN ValidateFrom_NoDuplicateTest(h, i + 1)
         ELSE Err("gap", {h[i]})

\* the walk that takes every gap of 1 or more for valid
RECURSIVE ValidateFrom_NoGapTest(_, _)
ValidateFrom_NoGapTest(h, i) ==
    IF i >= Len(h) THEN Nil
    ELSE LET gap == h[i + 1] - h[i] IN
         IF gap >= 1 THEN ValidateFrom_NoGapTest(h, i + 1)
         ELSE Err("duplicate", {h[i]})

\* step 3 of initHandlers: the walk over adjacent pairs, from pair i on
RECURSIVE ValidateFrom(_, _)
ValidateFrom(h, i) ==
    IF i >= Len(h) THEN Nil
    ELSE LET gap == h[i + 1] - h[i] IN
         IF gap = 1 THEN ValidateFrom(h, i + 1)
         ELSE IF gap = 0 THEN Err("duplicate", {h[i]})
         ELSE Err("gap", {h[i]})

ValidateIndex(h) == ValidateFrom(h, 1)

\* initHandlers as a whole: the new m.handlers and the error returned
InitHandlersResult(ex, h) ==
    LET c == CollectHandlers(ex, h) IN
    IF c.err THEN [handlers |-> c.handlers, res |-> Err("discovery", {})]
    ELSE LET s == SortByIndex(c.handlers) IN
         [handlers |-> s, res |-> ValidateIndex(s)]

\* ---------------------------------------------------------------- Run, pure parts
\* the handler the loop invokes at loop variable i: m.handlers[idx]
HandlerAt(h, i) == h[i + 1]

\* the loop's first idx
StartIdx(sche) == sche.version

\* Run without its check of the version against len(m.handlers)
AfterLoad_NoStaleCheck(sche, n) ==
    IF sche.dirty THEN [pc |-> "done", res |-> Err("dirty", {sche.version})]
    ELSE IF sche.version < n THEN [pc |-> "exec", res |-> NoResult]
    ELSE [pc |-> "done", res |-> Nil]

\* the tail of initAndGetSchema and Run's check against len(m.handlers):
\* where Run goes once the schema is loaded
AfterLoad(sche, n) ==
    IF sche.dirty THEN [pc |-> "done", res |-> Err("dirty", {sche.version})]
    ELSE IF sche.version > n THEN [pc |-> "done", res |-> Err("stale", {})]
    ELSE IF StartIdx(sche) < n THEN [pc |-> "exec", res |-> NoResult]
    ELSE [pc |-> "done", res |-> Nil]

\* UPDATE %s SET version = ?  (no WHERE: every row)
UpdateSchema(rs, v) == [j \in 1..Len(rs) |-> [rs[j] EXCEPT !.version = v]]

\* UPDATE %s SET version = ?, dirty = ?  (no WHERE: every row)
UpdateDirty(rs, v, d) == [j \in 1..Len(rs) |-> [version |-> v, dirty |-> d]]

\* the INSERT leaving dirty to the column's default, 1
InsertDefault_ColumnDefault(rs) == Append(rs, [version |-> 0, dirty |-> TRUE])

\* INSERT INTO %s (version, dirty) VALUES (0, 0)
InsertDefault(rs) == Append(rs, [version |-> 0, dirty |-> FALSE])

\* the version written as the count of handlers done in place of GetIndex()
AdvanceVersion_Count(h, i) == i + 1

\* the version Run writes after the handler at loop variable i succeeded
AdvanceVersion(h, i) == HandlerAt(h, i)

\* the dirty mark written with the loop variable in place of GetIndex()
DirtyVersion_Position(h, i) == i

\* the version Run writes after the handler at loop variable i failed
DirtyVersion(h, i) == HandlerAt(h, i)

\* ---------------------------------------------------------------- state
Init ==
    /\ tableExists = FALSE
    /\ rows = <<>>
    /\ executors = [i \in Insts |-> <<>>]
    /\ handlers = [i \in Insts |-> <<>>]
    /\ direct = [i \in Insts |-> <<>>]
    /\ ran = [i \in Insts |-> FALSE]
    /\ mutex = [i \in Insts |-> 0]
    /\ pc = [c \in Callers |-> "idle"]
    /\ tgt = [c \in Callers |-> 1]
    /\ idx = [c \in Callers |-> 0]
    /\ schema = [c \in Callers |-> ZeroSchema]
    /\ result = [c \in Callers |-> NoResult]
    /\ runLog = [c \in Callers |-> <<>>]
    /\ start = [c \in Callers |-> NoStart]

\* the units an instance has been given: directly and through its executors
Registered(i) ==
    direct[i] \o Concat([j \in 1..Len(executors[i]) |-> executors[i][j].units])

InRun(c) == pc[c] \notin {"idle", "done"}

\* Run returns r: the deferred m.mutex.Unlock() runs
Return(c, r) ==
    /\ pc' = [pc EXCEPT ![c] = "done"]
    /\ result' = [result EXCEPT ![c] = r]
    /\ mutex' = [mutex EXCEPT ![tgt[c]] = 0]

\* Run goes on to position p
Goto(c, p) ==
    /\ pc' = [pc EXCEPT ![c] = p]
    /\ UNCHANGED <<result, mutex>>

\* a call to the database fails: Run returns errors.WithStack(err)
StoreFails(c) == Return(c, Err("db", {}))

\* caller c goes on to its next call on instance i: what its last Run
\* returned and did is behind it
MoveOn(c, i) ==
    /\ ~InRun(c)
    /\ pc' = [pc EXCEPT ![c] = "idle"]
    /\ tgt' = [tgt EXCEPT ![c] = i]
    /\ idx' = [idx EXCEPT ![c] = 0]
    /\ schema' = [schema EXCEPT ![c] = ZeroSchema]
    /\ result' = [result EXCEPT ![c] = NoResult]
    /\ runLog' = [runLog EXCEPT ![c] = <<>>]
    /\ start' = [start EXCEPT ![c] = NoStart]

\* ---------------------------------------------------------------- operations
\* New(db, options...): caller c makes a fresh orchestrator in place of instance i
New(c, i) ==
    /\ mutex[i] = 0
    /\ ran[i]
    /\ MoveOn(c, i)
    /\ executors' = [executors EXCEPT ![i] = <<>>]
    /\ handlers' = [handlers EXCEPT ![i] = <<>>]
    /\ direct' = [direct EXCEPT ![i] = <<>>]
    /\ ran' = [ran EXCEPT ![i] = FALSE]
    /\ UNCHANGED <<storeVars, mutex>>

\* AddExecutors(e), called by c: lock, append, unlock
AddExecutors(c, i) ==
    /\ mutex[i] = 0
    /\ Len(executors[i]) < MaxExecutors
    /\ \E e \in SourcesUpTo(MaxUnits - Len(Registered(i))) :
          executors' = [executors EXCEPT ![i] = Append(@, e)]
    /\ MoveOn(c, i)
    /\ UNCHANGED <<storeVars, handlers, direct, ran, mutex>>

\* AddHandlers appending without taking m.mutex
AddHandlers_NoLock(c, i, k) ==
    /\ Len(Registered(i)) < MaxUnits
    /\ MoveOn(c, i)
    /\ handlers' = [handlers EXCEPT ![i] = Append(@, k)]
    /\ direct' = [direct EXCEPT ![i] = Append(@, k)]
    /\ UNCHANGED <<storeVars, executors, ran, mutex>>

\* AddHandlers(h), called by c: lock, append, unlock
AddHandlers(c, i, k) ==
    /\ mutex[i] = 0
    /\ Len(Registered(i)) < MaxUnits
    /\ MoveOn(c, i)
    /\ handlers' = [handlers EXCEPT ![i] = Append(@, k)]
    /\ direct' = [direct EXCEPT ![i] = Append(@, k)]
    /\ UNCHANGED <<storeVars, executors, ran, mutex>>

\* Run creating the schema table before it collects and validates its handlers
RunInitHandlers_CreatesTableFirst(c, i) ==
    /\ ~InRun(c)
    /\ mutex[i] = 0
    /\ Len(handlers[i]) <= MaxUnits
    /\ tableExists' = TRUE
    /\ ran' = [ran EXCEPT ![i] = TRUE]
    /\ tgt' = [tgt EXCEPT ![c] = i]
    /\ idx' = [idx EXCEPT ![c] = 0]
    /\ schema' = [schema EXCEPT ![c] = ZeroSchema]
    /\ runLog' = [runLog EXCEPT ![c] = <<>>]
    /\ start' = [start EXCEPT ![c] = [table |-> tableExists, rows |-> rows, fresh |-> ~ran[i]]]
    /\ LET r == InitHandlersResult(executors[i], handlers[i]) IN
       /\ handlers' = [handlers EXCEPT ![i] = r.handlers]
       /\ pc' = [pc EXCEPT ![c] = IF r.res = Nil THEN "create" ELSE "done"]
       /\ result' = [result EXCEPT ![c] = IF r.res = Nil THEN NoResult ELSE r.res]
       /\ mutex' = [mutex EXCEPT ![i] = IF r.res = Nil THEN c ELSE 0]
    /\ UNCHANGED <<rows, executors, direct>>

\* Run is called on instance i: m.mutex.Lock(), then step 1, m.initHandlers()
RunInitHandlers(c, i) ==
    /\ ~InRun(c)
    /\ mutex[i] = 0
    /\ Len(handlers[i]) <= MaxUnits
    /\ ran' = [ran EXCEPT ![i] = TRUE]
    /\ tgt' = [tgt EXCEPT ![c] = i]
    /\ idx' = [idx EXCEPT ![c] = 0]
    /\ schema' = [schema EXCEPT ![c] = ZeroSchema]
    /\ runLog' = [runLog EXCEPT ![c] = <<>>]
    /\ start' = [start EXCEPT ![c] = [table |-> tableExists, rows |-> rows, fresh |-> ~ran[i]]]
    /\ LET r == InitHandlersResult(executors[i], handlers[i]) IN
       /\ handlers' = [handlers EXCEPT ![i] = r.handlers]
       /\ pc' = [pc EXCEPT ![c] = IF r.res = Nil THEN "create" ELSE "done"]
       /\ result' = [result EXCEPT ![c] = IF r.res = Nil THEN NoResult ELSE r.res]
       /\ mutex' = [mutex EXCEPT ![i] = IF r.res = Nil THEN c ELSE 0]
    /\ UNCHANGED <<storeVars, executors, direct>>

\* Run step 2: CREATE TABLE IF NOT EXISTS
RunCreateTable(c) ==
    /\ pc[c] = "create"
    /\ \/ /\ tableExists' = TRUE
          /\ Goto(c, "select")
       \/ /\ StoreFails(c)
          /\ UNCHANGED tableExists
    /\ UNCHANGED <<rows, instVars, tgt, idx, schema, runLog, start>>

\* where Run stands once initAndGetSchema has produced sche
Loaded(c, sche) ==
    LET a == AfterLoad(sche, Len(handlers[tgt[c]])) IN
    /\ schema' = [schema EXCEPT ![c] = sche]
    /\ idx' = [idx EXCEPT ![c] = StartIdx(sche)]
    /\ IF a.pc = "done" THEN Return(c, a.res) ELSE Goto(c, a.pc)

\* Run step 3, initAndGetSchema: SELECT * and, when there is a row, Scan
RunSelectSchema(c) ==
    /\ pc[c] = "select"
    /\ \/ /\ tableExists
          /\ rows = <<>>
          /\ Goto(c, "insert")
          /\ UNCHANGED <<idx, schema>>
       \/ /\ tableExists
          /\ rows # <<>>
          /\ Loaded(c, rows[1])
       \/ /\ StoreFails(c)
          /\ UNCHANGED <<idx, schema>>
    /\ UNCHANGED <<storeVars, instVars, tgt, runLog, start>>

\* Run step 3, initAndGetSchema: INSERT of the default row when SELECT found none
RunInsertDefault(c) ==
    /\ pc[c] = "insert"
    /\ \/ /\ rows' = InsertDefault(rows)
          /\ Loaded(c, ZeroSchema)
       \/ /\ StoreFails(c)
          /\ UNCHANGED <<rows, idx, schema>>
    /\ UNCHANGED <<tableExists, instVars, tgt, runLog, start>>

\* Run step 4: m.handlers[idx].Exec(ctx), which succeeds or fails
RunExec(c) ==
    /\ pc[c] = "exec"
    /\ LET k == HandlerAt(handlers[tgt[c]], idx[c]) IN
       \/ /\ runLog' = [runLog EXCEPT ![c] = Append(@, [index |-> k, ok |-> TRUE])]
          /\ Goto(c, "advance")
       \/ /\ runLog' = [runLog EXCEPT ![c] = Append(@, [index |-> k, ok |-> FALSE])]
          /\ Goto(c, "markdirty")
    /\ UNCHANGED <<tableExists, rows, instVars, tgt, idx, schema, start>>

\* Run step 4, success: UPDATE version, then idx++ and the loop test
RunAdvance(c) ==
    /\ pc[c] = "advance"
    /\ LET h == handlers[tgt[c]] IN
       \/ /\ rows' = UpdateSchema(rows, AdvanceVersion(h, idx[c]))
          /\ idx' = [idx EXCEPT ![c] = @ + 1]
          /\ IF idx[c] + 1 < Len(h) THEN Goto(c, "exec") ELSE Return(c, Nil)
       \/ /\ StoreFails(c)
          /\ UNCHANGED <<rows, idx>>
    /\ UNCHANGED <<tableExists, instVars, tgt, schema, runLog, start>>

\* the failure branch returning the handler's error whatever became of the UPDATE
RunMarkDirty_ReturnsActionError(c) ==
    /\ pc[c] = "markdirty"
    /\ LET h == handlers[tgt[c]] IN
       \/ /\ rows' = UpdateDirty(rows, DirtyVersion(h, idx[c]), TRUE)
          /\ Return(c, Err("action", {}))
       \/ /\ Return(c, Err("action", {}))
          /\ UNCHANGED rows
    /\ UNCHANGED <<tableExists, instVars, tgt, idx, schema, runLog, start>>

\* Run step 4, failure: UPDATE version and dirty, then return the handler's error
RunMarkDirty(c) ==
    /\ pc[c] = "markdirty"
    /\ LET h == handlers[tgt[c]] IN
       \/ /\ rows' = UpdateDirty(rows, DirtyVersion(h, idx[c]), TRUE)
          /\ Return(c, Err("action", {}))
       \/ /\ StoreFails(c)
          /\ UNCHANGED rows
    /\ UNCHANGED <<tableExists, instVars, tgt, idx, schema, runLog, start>>

\* the process stops inside a Run: everything in memory is lost, the store stays
Crash ==
    /\ \E c \in Callers : InRun(c)
    /\ executors' = [i \in Insts |-> <<>>]
    /\ handlers' = [i \in Insts |-> <<>>]
    /\ direct' = [i \in Insts |-> <<>>]
    /\ ran' = [i \in Insts |-> FALSE]
    /\ mutex' = [i \in Insts |-> 0]
    /\ pc' = [c \in Callers |-> "idle"]
    /\ tgt' = [c \in Callers |-> 1]
    /\ idx' = [c \in Callers |-> 0]
    /\ schema' = [c \in Callers |-> ZeroSchema]
    /\ result' = [c \in Callers |-> NoResult]
    /\ runLog' = [c \in Callers |-> <<>>]
    /\ start' = [c \in Callers |-> NoStart]
    /\ UNCHANGED <<storeVars>>

Next ==
    \/ \E c \in SeqCallers, i \in SeqInsts : New(c, i)
    \/ \E c \in SeqCallers, i \in SeqInsts : AddExecutors(c, i)
    \/ \E c \in SeqCallers, i \in SeqInsts, k \in Indices : AddHandlers(c, i, k)
    \/ \E c \in SeqCallers, i \in SeqInsts : RunInitHandlers(c, i)
    \/ \E c \in SeqCallers : RunCreateTable(c)
    \/ \E c \in SeqCallers : RunSelectSchema(c)
    \/ \E c \in SeqCallers : RunInsertDefault(c)
    \/ \E c \in SeqCallers : RunExec(c)
    \/ \E c \in SeqCallers : RunAdvance(c)
    \/ \E c \in SeqCallers : RunMarkDirty(c)
    \/ Crash

Spec == Init /\ [][Next]_vars

\* ---------------------------------------------------------------- operator
\* between two Runs an operator clears the dirty flag by hand, leaving version
ResetDirty ==
    /\ \A c \in Callers : ~InRun(c)
    /\ rows # <<>>
    /\ \E j \in 1..Len(rows) : rows[j].dirty
    /\ rows' = [j \in 1..Len(rows) |-> [rows[j] EXCEPT !.dirty = FALSE]]
    /\ UNCHANGED <<tableExists, instVars, mutex, callVars>>

OpNext ==
    \/ Next
    \/ ResetDirty

OpSpec == Init /\ [][OpNext]_vars

\* ---------------------------------------------------------------- concurrent callers
\* the units given to all instances together
TotalUnits == Len(Concat([i \in Insts |-> Registered(i)]))

\* two goroutines share two orchestrators, one database and one schema table:
\* goroutine 1 gives instance 1 its units, and each goroutine calls Run, on
\* either instance, once after each of its other calls.  Each statement of
\* Run is one step, so the calls interleave wherever m.mutex lets them.
ConcNext ==
    \/ \E c \in SeqCallers, i \in SeqInsts :
          TotalUnits < MaxConcUnits /\ AddExecutors(c, i) /\ TotalUnits' <= MaxConcUnits
    \/ \E c \in SeqCallers, i \in SeqInsts, k \in Indices :
          TotalUnits < MaxConcUnits /\ AddHandlers(c, i, k)
    \/ \E c \in Callers, i \in Insts : pc[c] = "idle" /\ RunInitHandlers(c, i)
    \/ \E c \in Callers : RunCreateTable(c)
    \/ \E c \in Callers : RunSelectSchema(c)
    \/ \E c \in Callers : RunInsertDefault(c)
    \/ \E c \in Callers : RunExec(c)
    \/ \E c \in Callers : RunAdvance(c)
    \/ \E c \in Callers : RunMarkDirty(c)

ConcSpec == Init /\ [][ConcNext]_vars

\* ---------------------------------------------------------------- the SQL executor
\* a file name is the sequence of its characters
Digits == <<"0", "1", "2", "3", "4", "5", "6", "7", "8", "9">>

IsDigit(ch) == \E d \in 1..Len(Digits) : Digits[d] = ch

DigitValue(ch) == (CHOOSE d \in 1..Len(Digits) : Digits[d] = ch) - 1

RECURSIVE ParseDigits(_, _)
ParseDigits(s, acc) ==
    IF s = <<>> THEN acc ELSE ParseDigits(Tail(s), acc * 10 + DigitValue(Head(s)))

\* strconv.ParseInt(s, 10, 64): an optional sign, then digits and nothing else
ParseInt(s) ==
    LET signed == s # <<>> /\ Head(s) \in {"+", "-"}
        body == IF signed THEN Tail(s) ELSE s IN
    IF body = <<>> \/ \E j \in 1..Len(body) : ~IsDigit(body[j])
    THEN [num |-> 0, err |-> TRUE]
    ELSE [num |-> IF signed /\ Head(s) = "-" THEN 0 - ParseDigits(body, 0)
                  ELSE ParseDigits(body, 0),
          err |-> FALSE]

\* path.Ext(fileName): the suffix from the last dot on, empty without a dot
Ext(fileName) ==
    LET dots == {j \in 1..Len(fileName) : fileName[j] = "."} IN
    IF dots = {} THEN <<>>
    ELSE SubSeq(fileName, CHOOSE j \in dots : \A m \in dots : m <= j, Len(fileName))

\* strings.Split(fileName, "_")[0]: what stands before the first underscore
SplitFirst(fileName) ==
    LET us == {j \in 1..Len(fileName) : fileName[j] = "_"} IN
    IF us = {} THEN fileName
    ELSE SubSeq(fileName, 1, (CHOOSE j \in us : \A m \in us : j <= m) - 1)

sqlExt == <<".", "s", "q", "l">>

\* the entries a source directory may hold, in the order of their names (the
\* order os.ReadDir lists them in): 1.sql, 1_a.sql, 2_b.sql, 2_c.sql (which
\* cannot be opened), r.md, the sub-directory sub, x_1.sql
DirEntries ==
    << [name |-> <<"1", ".", "s", "q", "l">>, isDir |-> FALSE, opens |-> TRUE],
       [name |-> <<"1", "_", "a", ".", "s", "q", "l">>, isDir |-> FALSE, opens |-> TRUE],
       [name |-> <<"2", "_", "b", ".", "s", "q", "l">>, isDir |-> FALSE, opens |-> TRUE],
       [name |-> <<"2", "_", "c", ".", "s", "q", "l">>, isDir |-> FALSE, opens |-> FALSE],
       [name |-> <<"r", ".", "m", "d">>, isDir |-> FALSE, opens |-> TRUE],
       [name |-> <<"s", "u", "b">>, isDir |-> TRUE, opens |-> TRUE],
       [name |-> <<"x", "_", "1", ".", "s", "q", "l">>, isDir |-> FALSE, opens |-> TRUE] >>

\* the source directories: one that cannot be read, and every selection of DirEntries
SourceDirs ==
    {[readable |-> FALSE, entries |-> <<>>]}
        \cup {[readable |-> TRUE,
               entries |-> SelectSeq(DirEntries, LAMBDA e : e \in S)] :
                  S \in SUBSET Range(DirEntries)}

\* the loop of getFilesByDir over the entries es, acc being fileInfos so far
RECURSIVE FilesFrom(_, _)
FilesFrom(es, acc) ==
    IF es = <<>> THEN [files |-> acc, err |-> "nil"]
    ELSE LET e == Head(es) IN
         IF e.isDir THEN [files |-> <<>>, err |-> "ErrFileType"]
         ELSE IF Ext(e.name) # sqlExt THEN FilesFrom(Tail(es), acc)
         ELSE LET num == ParseInt(SplitFirst(e.name)) IN
              IF num.err THEN [files |-> <<>>, err |-> "ErrFileName"]
              ELSE FilesFrom(Tail(es), Append(acc, [index |-> num.num, opens |-> e.opens]))

getFilesByDir(dir) ==
    IF ~dir.readable THEN [files |-> <<>>, err |-> "ReadDir"]
    ELSE FilesFrom(dir.entries, <<>>)

\* the loop of sqlExecutor.initHandlers over the files fs: s.handlers is
\* assigned only when every file has been read
RECURSIVE HandlersFrom(_, _)
HandlersFrom(fs, acc) ==
    IF fs = <<>> THEN [handlers |-> acc, err |-> FALSE]
    ELSE IF ~Head(fs).opens THEN [handlers |-> <<>>, err |-> TRUE]
    ELSE HandlersFrom(Tail(fs), Append(acc, Head(fs).index))

\* sqlExecutor.initHandlers: s.handlers afterwards and whether it returns an error
SqlInitHandlers(dir) ==
    LET f == getFilesByDir(dir) IN
    IF f.err # "nil" THEN [handlers |-> <<>>, err |-> FALSE]
    ELSE HandlersFrom(f.files, <<>>)

\* sqlExecutor.ListHandlers on an executor made by NewSQLExecutor(db, dir):
\* s.handlers and errors.WithStack(err)
ListHandlers(dir) ==
    LET r == SqlInitHandlers(dir) IN [units |-> r.handlers, err |-> r.err]

\* AddExecutors(NewSQLExecutor(db, dir)), called by c
AddSQLExecutor(c, i, dir) ==
    LET l == ListHandlers(dir) IN
    /\ mutex[i] = 0
    /\ Len(executors[i]) < MaxExecutors
    /\ Len(Registered(i)) + Len(l.units) <= MaxUnits
    /\ \A j \in 1..Len(l.units) : l.units[j] \in Indices
    /\ executors' = [executors EXCEPT ![i] =
                        Append(@, [units |-> l.units, err |-> l.err, dir |-> dir])]
    /\ MoveOn(c, i)
    /\ UNCHANGED <<storeVars, handlers, direct, ran, mutex>>

\* Runs of an orchestrator whose executors are SQL executors
SqlNext ==
    \/ \E c \in SeqCallers, i \in SeqInsts, dir \in SourceDirs : AddSQLExecutor(c, i, dir)
    \/ \E c \in SeqCallers, i \in SeqInsts : RunInitHandlers(c, i)
    \/ \E c \in SeqCallers : RunCreateTable(c)
    \/ \E c \in SeqCallers : RunSelectSchema(c)
    \/ \E c \in SeqCallers : RunInsertDefault(c)
    \/ \E c \in SeqCallers : RunExec(c)
    \/ \E c \in SeqCallers : RunAdvance(c)
    \/ \E c \in SeqCallers : RunMarkDirty(c)

SqlSpec == Init /\ [][SqlNext]_vars

\* ---------------------------------------------------------------- vocabulary of the claims
Done(c) == pc[c] = "done"

\* s lists each of 1..Len(s) once, in any order
IsRange1N(s) == Range(s) = 1..Len(s)

\* every executor of instance i enumerates its handlers
AllEnumerate(i) == \A j \in 1..Len(executors[i]) : ~executors[i][j].err

HasDuplicate(s) == \E a, b \in 1..Len(s) : a # b /\ s[a] = s[b]

\* for s in ascending order: some adjacent pair is more than 1 apart
HasGap(s) == \E j \in 1..(Len(s) - 1) : s[j + 1] - s[j] > 1

\* for s in ascending order: dense, every adjacent pair exactly 1 apart
Dense(s) == \A j \in 1..(Len(s) - 1) : s[j + 1] - s[j] = 1

\* for s in ascending order and not dense: the lowest adjacent pair not 1 apart
FirstBreak(s) ==
    CHOOSE j \in 1..(Len(s) - 1) :
        /\ s[j + 1] - s[j] # 1
        /\ \A m \in 1..(j - 1) : s[m + 1] - s[m] = 1

\* the indices of the handlers a Run has invoked, in the order of invocation
LogIndices(c) == [j \in 1..Len(runLog[c]) |-> runLog[c][j].index]

AllOk(c) == \A j \in 1..Len(runLog[c]) : runLog[c][j].ok

\* the checkpoint a Run found when it began: no table or no row counts as (0, clean)
StartRow(c) == IF start[c].rows = <<>> THEN ZeroSchema ELSE start[c].rows[1]

\* c has called Run and has not made another call since
Began(c) == pc[c] # "idle"

\* the ascending sequence v+1, v+2, ..., v+n
Ascending(v, n) == [j \in 1..n |-> v + j]

\* ---------------------------------------------------------------- C1
\* C1: a Run on an instance whose units are exactly 1..N, spread over its
\* executors and direct handlers in any order, that starts from a clean
\* checkpoint at version 0, invokes the handlers in ascending index order: the
\* k-th invocation is of the unit with index k.  When it is the first Run on
\* the instance it passes validation, and when it returns nil it has invoked
\* all N.
C1_AscendingOrder ==
    \A c \in Callers :
        ( /\ Began(c)
          /\ AllEnumerate(tgt[c])
          /\ IsRange1N(Registered(tgt[c]))
          /\ StartRow(c) = ZeroSchema )
        => /\ \A j \in 1..Len(runLog[c]) : runLog[c][j].index = j
           /\ start[c].fresh =>
                /\ result[c].kind \notin {"discovery", "duplicate", "gap", "stale", "dirty"}
                /\ (Done(c) /\ result[c] = Nil) => Len(runLog[c]) = Len(Registered(tgt[c]))

\* unit 2 from the executor registered first and unit 1 from the second have
\* been run as 1,2
C1_Witness ==
    \E c \in Callers :
        /\ Done(c)
        /\ result[c] = Nil
        /\ StartRow(c) = ZeroSchema
        /\ Len(executors[tgt[c]]) = 2
        /\ executors[tgt[c]][1].units = <<2>>
        /\ executors[tgt[c]][2].units = <<1>>
        /\ LogIndices(c) = <<1, 2>>

\* the handlers of h whose index is above v, in the order of h
Above(h, v) == SelectSeq(h, LAMBDA k : k > v)

\* ---------------------------------------------------------------- C2
\* C2: once a Run has passed validation and loaded a clean checkpoint with
\* version v, the handlers it invokes are, in order, the units whose index is
\* above v: none with an index <= v, none above v left out before the first
\* failure, and all of them when the Run returns nil; whatever the smallest
\* index of the validated set is.
C2_StartsAboveVersion ==
    \A c \in Callers :
        pc[c] \in {"exec", "advance", "markdirty", "done"}
        => LET due == Above(handlers[tgt[c]], schema[c].version) IN
           /\ Len(runLog[c]) <= Len(due)
           /\ \A j \in 1..Len(runLog[c]) : runLog[c][j].index = due[j]
           /\ (result[c] = Nil => Len(runLog[c]) = Len(due))

\* ---------------------------------------------------------------- C3
\* C3: a Run that finds the checkpoint at (N, clean), N being the number of
\* its units 1..N, invokes no handler, returns nil and leaves the checkpoint
\* as it was, on an instance that has already run as on a fresh one (the
\* store answering every call).
C3_RerunIsNoOp ==
    \A c \in Callers :
        ( /\ Done(c)
          /\ AllEnumerate(tgt[c])
          /\ IsRange1N(Registered(tgt[c]))
          /\ start[c].rows = <<[version |-> Len(Registered(tgt[c])), dirty |-> FALSE]>>
          /\ result[c].kind # "db" )
        => /\ result[c] = Nil
           /\ runLog[c] = <<>>
           /\ rows = start[c].rows

\* ---------------------------------------------------------------- C4
\* C4: when a Run over units 1..N returns a handler's error, the failed
\* handler k is the last one invoked, the handlers invoked before it are those
\* from the loaded version up to k-1, each once and each successful, and the
\* checkpoint is exactly (k, dirty); while the loop runs the checkpoint stands
\* at the index of the last handler that succeeded.
C4_FailureStopsAtK ==
    \A c \in Callers :
        ( /\ AllEnumerate(tgt[c])
          /\ IsRange1N(Registered(tgt[c])) )
        => /\ (Done(c) /\ result[c].kind = "action") =>
                LET n == Len(runLog[c])
                    v == schema[c].version IN
                /\ n >= 1
                /\ LogIndices(c) = Ascending(v, n)
                /\ \A j \in 1..n : runLog[c][j].ok <=> j < n
                /\ rows = <<[version |-> v + n, dirty |-> TRUE]>>
           /\ pc[c] = "exec" =>
                /\ AllOk(c)
                /\ LogIndices(c) = Ascending(schema[c].version, Len(runLog[c]))
                /\ rows = <<[version |-> schema[c].version + Len(runLog[c]), dirty |-> FALSE]>>
           /\ pc[c] = "markdirty" => ~runLog[c][Len(runLog[c])].ok

\* of units 1,2 the second has failed after the first succeeded: the checkpoint is (2, dirty)
C4_Witness ==
    \E c \in Callers :
        /\ Done(c)
        /\ result[c].kind = "action"
        /\ Len(Registered(tgt[c])) = 2
        /\ IsRange1N(Registered(tgt[c]))
        /\ runLog[c] = <<[index |-> 1, ok |-> TRUE], [index |-> 2, ok |-> FALSE]>>
        /\ rows = <<[version |-> 2, dirty |-> TRUE]>>

\* ---------------------------------------------------------------- C5
\* C5: a Run that finds the checkpoint dirty, on an instance whose units are a
\* valid set, returns the dirty error carrying the stored version, invokes no
\* handler and leaves the row as it was (the store answering every call).
C5_DirtyBlocks ==
    \A c \in Callers :
        ( /\ Done(c)
          /\ AllEnumerate(tgt[c])
          /\ Dense(SortByIndex(Registered(tgt[c])))
          /\ start[c].rows # <<>>
          /\ start[c].rows[1].dirty
          /\ result[c].kind # "db" )
        => /\ result[c] = Err("dirty", {start[c].rows[1].version})
           /\ runLog[c] = <<>>
           /\ rows = start[c].rows

\* ---------------------------------------------------------------- C6
\* C6: the step in which a handler's action completes successfully leaves the
\* durable checkpoint different from what it was before the action ran, so a
\* stop between the action and the UPDATE of version can be told from a stop
\* before the action.
C6_CrashDistinguishable ==
    [][\A c \in Callers :
          (pc[c] = "exec" /\ pc'[c] = "advance")
          => <<tableExists, rows>>' # <<tableExists, rows>>]_vars

\* ---------------------------------------------------------------- C7
\* C7 as stated: a first Run on an instance whose units hold a duplicate index
\* returns the duplicate-index error and invokes no handler, wherever the
\* duplicate lies.
C7_DuplicateAlwaysReported ==
    \A c \in Callers :
        ( /\ Done(c)
          /\ start[c].fresh
          /\ AllEnumerate(tgt[c])
          /\ HasDuplicate(Registered(tgt[c])) )
        => /\ result[c].kind = "duplicate"
           /\ runLog[c] = <<>>

\* C7 as amended: when every executor enumerates and the working set holds a
\* duplicate index, Run returns an ordering error and invokes no handler; the
\* error is the one of the lowest adjacent pair of the sorted indices that is
\* not 1 apart: the duplicate-index error, carrying the index, when that pair
\* is equal, the index-gap error when a gap lies below every duplicate.
C7_DuplicateRejected ==
    \A c \in Callers :
        ( /\ Done(c)
          /\ AllEnumerate(tgt[c])
          /\ HasDuplicate(handlers[tgt[c]]) )
        => LET h == handlers[tgt[c]]
               j == FirstBreak(h) IN
           /\ runLog[c] = <<>>
           /\ rows = start[c].rows
           /\ result[c] = IF h[j + 1] = h[j] THEN Err("duplicate", {h[j]})
                          ELSE Err("gap", {h[j]})

\* index 2 comes from two executors: the Run has returned "duplicate index is 2"
C7_Witness ==
    \E c \in Callers :
        /\ Done(c)
        /\ Len(executors[tgt[c]]) = 2
        /\ executors[tgt[c]][1].units = <<2, 1>>
        /\ executors[tgt[c]][2].units = <<2>>
        /\ result[c] = Err("duplicate", {2})
        /\ runLog[c] = <<>>

\* ---------------------------------------------------------------- C8
\* C8 as stated: a first Run on an instance whose sorted unit indices have an
\* adjacent pair more than 1 apart returns the index-gap error and invokes no
\* handler.
C8_GapAlwaysReported ==
    \A c \in Callers :
        ( /\ Done(c)
          /\ start[c].fresh
          /\ AllEnumerate(tgt[c])
          /\ HasGap(SortByIndex(Registered(tgt[c]))) )
        => /\ result[c].kind = "gap"
           /\ runLog[c] = <<>>

\* C8 as amended: when every executor enumerates and the sorted working set
\* has an adjacent pair more than 1 apart, Run returns an ordering error and
\* invokes no handler; the error is the index-gap error, carrying the lower
\* index of the pair, when no duplicate lies below the lowest gap, and the
\* duplicate-index error otherwise.  Conversely a Run is past validation only
\* with a dense working set.
C8_GapRejected ==
    \A c \in Callers :
        /\ ( /\ Done(c)
             /\ AllEnumerate(tgt[c])
             /\ HasGap(handlers[tgt[c]]) )
           => LET h == handlers[tgt[c]]
                  j == FirstBreak(h) IN
              /\ runLog[c] = <<>>
              /\ rows = start[c].rows
              /\ result[c] = IF h[j + 1] - h[j] > 1 THEN Err("gap", {h[j]})
                             ELSE Err("duplicate", {h[j]})
        /\ (pc[c] \in {"create", "select", "insert", "exec", "advance", "markdirty"}
              \/ runLog[c] # <<>>)
           => Dense(handlers[tgt[c]])

\* units 2,2 and 0 from two executors: the Run has returned the gap error at index 0
C8_Witness ==
    \E c \in Callers :
        /\ Done(c)
        /\ Len(executors[tgt[c]]) = 2
        /\ executors[tgt[c]][1].units = <<2, 2>>
        /\ executors[tgt[c]][2].units = <<0>>
        /\ result[c] = Err("gap", {0})
        /\ runLog[c] = <<>>

\* ---------------------------------------------------------------- C9
\* C9: a first Run on an instance, against a store without the schema table,
\* with no units or with units 1..N whose actions all succeed, returns nil and
\* leaves the table with the single row (0, clean), respectively (N, clean)
\* (the store answering every call).
C9_FirstRun ==
    \A c \in Callers :
        ( /\ Done(c)
          /\ start[c].fresh
          /\ ~start[c].table
          /\ AllEnumerate(tgt[c])
          /\ IsRange1N(Registered(tgt[c]))
          /\ AllOk(c)
          /\ result[c].kind # "db" )
        => /\ result[c] = Nil
           /\ tableExists
           /\ rows = <<[version |-> Len(Registered(tgt[c])), dirty |-> FALSE]>>

\* the first Run ever, over units 1,2, has ended with the row (2, clean)
C9_Witness ==
    \E c \in Callers :
        /\ Done(c)
        /\ start[c].fresh
        /\ ~start[c].table
        /\ Len(runLog[c]) = 2
        /\ result[c] = Nil
        /\ tableExists
        /\ rows = <<[version |-> 2, dirty |-> FALSE]>>

\* ---------------------------------------------------------------- C10
\* the last handler invocation of c was of unit v and succeeded
JustCompleted(c, v) ==
    /\ runLog[c] # <<>>
    /\ runLog[c][Len(runLog[c])] = [index |-> v, ok |-> TRUE]

\* C10 as stated: every write to the checkpoint leaves a version >= 0 that,
\* when above 0, is the index of a unit whose action has just completed
\* without error, also when the write marks the checkpoint dirty.
C10_VersionIsLastSuccess ==
    [][rows' # rows =>
         \A j \in 1..Len(rows') :
            /\ rows'[j].version >= 0
            /\ rows'[j].version > 0 =>
                 \E c \in Callers : JustCompleted(c, rows'[j].version)]_vars

\* C10 as amended: every write to the checkpoint leaves a version >= 0 that,
\* when above 0 on a clean row, is the index of the unit whose action has just
\* completed without error; a write that marks the row dirty leaves the index
\* of the unit whose action has just failed.
C10_CleanVersionIsLastSuccess ==
    [][rows' # rows =>
         \A j \in 1..Len(rows') :
            /\ rows'[j].version >= 0
            /\ (rows'[j].version > 0 /\ ~rows'[j].dirty) =>
                 \E c \in Callers : JustCompleted(c, rows'[j].version)
            /\ rows'[j].dirty =>
                 \E c \in Callers :
                    /\ runLog[c] # <<>>
                    /\ runLog[c][Len(runLog[c])] = [index |-> rows'[j].version, ok |-> FALSE]]_vars

\* unit 2 has completed and the clean checkpoint stands at 2
C10_Witness ==
    \E c \in Callers :
        /\ pc[c] \in {"exec", "done"}
        /\ JustCompleted(c, 2)
        /\ rows = <<[version |-> 2, dirty |-> FALSE]>>

\* ---------------------------------------------------------------- C11
\* C11: a Run that has loaded a clean checkpoint whose version is greater than
\* the number of handlers it collected returns ErrIndexLessDatabaseVersion,
\* has invoked no handler and has left the table and its rows as it found
\* them; with no handlers at all every version above 0 does so.
C11_StaleCheckpoint ==
    \A c \in Callers :
        ( /\ Done(c)
          /\ ~schema[c].dirty
          /\ schema[c].version > Len(handlers[tgt[c]]) )
        => /\ result[c] = Err("stale", {})
           /\ runLog[c] = <<>>
           /\ start[c].table
           /\ rows = start[c].rows
           /\ rows[1] = schema[c]

\* a Run with no units has found the clean checkpoint at version 2 and
\* returned the stale error
C11_Witness ==
    \E c \in Callers :
        /\ Done(c)
        /\ handlers[tgt[c]] = <<>>
        /\ Registered(tgt[c]) = <<>>
        /\ schema[c] = [version |-> 2, dirty |-> FALSE]
        /\ result[c] = Err("stale", {})
        /\ rows = <<[version |-> 2, dirty |-> FALSE]>>

\* ---------------------------------------------------------------- C12
\* C12: with two goroutines calling on the same orchestrators, at most one
\* call is inside m.mutex per instance: two Runs are never under way on one
\* instance at a time, a Run under way holds the instance's mutex, and while
\* a Run is under way on an instance no step changes the instance's
\* m.executors or m.handlers.
C12_Serialized ==
    /\ [](\A c, d \in Callers :
             (c # d /\ InRun(c) /\ InRun(d)) => tgt[c] # tgt[d])
    /\ [](\A c \in Callers : InRun(c) => mutex[tgt[c]] = c)
    /\ [][\A i \in Insts :
             (mutex[i] # 0 /\ mutex'[i] # 0)
             => /\ executors'[i] = executors[i]
                /\ handlers'[i] = handlers[i]]_vars

\* goroutine 2 has completed a Run on instance 1, which created the table and
\* its row; goroutine 1, having given the instance unit 1 since, is inside its
\* own Run on it and has invoked the unit
C12_Witness ==
    /\ Done(2)
    /\ tgt[2] = 1
    /\ result[2] = Nil
    /\ ~start[2].table
    /\ pc[1] = "advance"
    /\ tgt[1] = 1
    /\ mutex[1] = 1
    /\ start[1].rows = <<[version |-> 0, dirty |-> FALSE]>>
    /\ runLog[1] = <<[index |-> 1, ok |-> TRUE]>>

\* ---------------------------------------------------------------- C13
\* C13: whatever the interleaving of the Runs of two orchestrators on one
\* schema table, the table never holds more than one row.
C13_SingleRow == Len(rows) <= 1

\* ---------------------------------------------------------------- C14
\* the executors of ex registered before the first one that fails to enumerate
BeforeFirstFailure(ex) ==
    LET j == CHOOSE m \in 1..Len(ex) :
                 ex[m].err /\ \A n \in 1..(m - 1) : ~ex[n].err
    IN SubSeq(ex, 1, j - 1)

\* C14: a Run on an instance one of whose executors fails to enumerate has
\* returned that executor's error when its first step is over, has invoked no
\* handler and has issued no statement: the table and its rows are as the Run
\* found them.  Collection stopped at the first failing executor: on a fresh
\* instance m.handlers holds the direct handlers and the handlers of the
\* executors registered before it, none of a later one.
C14_DiscoveryFails ==
    \A c \in Callers :
        (Began(c) /\ ~AllEnumerate(tgt[c]))
        => /\ Done(c)
           /\ result[c] = Err("discovery", {})
           /\ runLog[c] = <<>>
           /\ tableExists = start[c].table
           /\ rows = start[c].rows
           /\ start[c].fresh =>
                LET before == BeforeFirstFailure(executors[tgt[c]]) IN
                handlers[tgt[c]] =
                    direct[tgt[c]] \o Concat([j \in 1..Len(before) |-> before[j].units])

\* the first executor has listed unit 1, the second has failed: the Run has
\* returned the discovery error and unit 1 has not been invoked
C14_Witness ==
    \E c \in Callers :
        /\ Done(c)
        /\ Len(executors[tgt[c]]) = 2
        /\ executors[tgt[c]][1] = [units |-> <<1>>, err |-> FALSE]
        /\ executors[tgt[c]][2].err
        /\ result[c] = Err("discovery", {})
        /\ runLog[c] = <<>>
        /\ ~tableExists

\* ---------------------------------------------------------------- C15
\* C15: whenever a Run has collected its handlers, m.handlers holds the direct
\* handlers and what the executors have returned to this Run, nothing from an
\* earlier Run on the instance: it is as long as the list of the instance's
\* units, however many Runs the instance has seen.
C15_NoCarryOver ==
    \A c \in Callers :
        (Began(c) /\ AllEnumerate(tgt[c]))
        => /\ Len(handlers[tgt[c]]) = Len(Registered(tgt[c]))
           /\ \A k \in Indices :
                Cardinality({j \in 1..Len(handlers[tgt[c]]) : handlers[tgt[c]][j] = k})
                    = Cardinality({j \in 1..Len(Registered(tgt[c])) : Registered(tgt[c])[j] = k})

\* ---------------------------------------------------------------- C16
\* the version the checkpoint stood at before the last invocation of c's Run:
\* the index of the handler that succeeded before it, or the loaded version
LastAdvanced(c) ==
    IF Len(runLog[c]) > 1 THEN runLog[c][Len(runLog[c]) - 1].index
    ELSE schema[c].version

\* C16: the step in which Run, after a handler's action has failed, ends
\* without having marked the checkpoint dirty (the UPDATE failed) returns the
\* store's error, not the handler's; the failed handler is the last one
\* invoked and the row is what it was before that handler: the last advanced
\* version, clean.
C16_MarkDirtyFails ==
    [][\A c \in Callers :
          (pc[c] = "markdirty" /\ pc'[c] = "done" /\ rows' = rows)
          => /\ result'[c] = Err("db", {})
             /\ runLog'[c] = runLog[c]
             /\ ~runLog[c][Len(runLog[c])].ok
             /\ \A j \in 1..(Len(runLog[c]) - 1) : runLog[c][j].ok
             /\ rows' = <<[version |-> LastAdvanced(c), dirty |-> FALSE]>>]_vars

\* unit 1 succeeded, unit 2 failed and so did the UPDATE marking it: the Run
\* has returned the store's error and the row is still (1, clean)
C16_Witness ==
    \E c \in Callers :
        /\ Done(c)
        /\ result[c] = Err("db", {})
        /\ runLog[c] = <<[index |-> 1, ok |-> TRUE], [index |-> 2, ok |-> FALSE]>>
        /\ rows = <<[version |-> 1, dirty |-> FALSE]>>

\* ---------------------------------------------------------------- C17
\* C17: when a Run has returned the error of a handler's action, having
\* written the dirty mark, the error it returned carries the index of the
\* handler that failed.
C17_ErrorCarriesIndex ==
    \A c \in Callers :
        (Done(c) /\ result[c].kind = "action")
        => /\ runLog[c] # <<>>
           /\ ~runLog[c][Len(runLog[c])].ok
           /\ rows # <<>> /\ rows[1].dirty
           /\ result[c].val = {runLog[c][Len(runLog[c])].index}

\* ---------------------------------------------------------------- C18
\* the file name begins with a digit
StartsWithInteger(fileName) == fileName # <<>> /\ IsDigit(Head(fileName))

\* the directory cannot be read, or holds a sub-directory or a .sql file whose
\* name does not start with an integer
Malformed(dir) ==
    \/ ~dir.readable
    \/ \E j \in 1..Len(dir.entries) :
          \/ dir.entries[j].isDir
          \/ Ext(dir.entries[j].name) = sqlExt /\ ~StartsWithInteger(dir.entries[j].name)

\* C18: the ListHandlers of a SQL executor whose directory is malformed returns
\* an error, and a Run on an instance with such an executor returns that error
\* from its first step: it does not go on to the database.
C18_MalformedSourceFails ==
    \A c \in Callers :
        Began(c) =>
            \A j \in 1..Len(executors[tgt[c]]) :
                Malformed(executors[tgt[c]][j].dir)
                => /\ ListHandlers(executors[tgt[c]][j].dir).err
                   /\ Done(c)
                   /\ result[c] = Err("discovery", {})

\* ---------------------------------------------------------------- C19
\* c's last Run failed at the handler with index k and the checkpoint, marked
\* (k, dirty) by that Run, now stands at (k, clean)
ResetAfterFailure(c, k) ==
    /\ Done(c)
    /\ result[c].kind = "action"
    /\ runLog[c] # <<>>
    /\ runLog[c][Len(runLog[c])] = [index |-> k, ok |-> FALSE]
    /\ rows = <<[version |-> k, dirty |-> FALSE]>>

\* C19: over units 1..N, the Run that follows a failure at unit k and the
\* operator's reset of dirty is not blocked: it passes its first step; and a
\* Run that began at (k, clean) invokes k+1, k+2, ... in order, never k again,
\* and when it returns nil leaves (N, clean).
C19_ResumesAfterReset ==
    [][\A c \in Callers :
          /\ ( /\ \E k \in Indices : ResetAfterFailure(c, k)
               /\ AllEnumerate(tgt[c])
               /\ IsRange1N(Registered(tgt[c]))
               /\ runLog'[c] = <<>>
               /\ pc'[c] # "idle"
               /\ tgt'[c] = tgt[c] )
             => pc'[c] = "create"
          /\ ( /\ Began(c)'
               /\ AllEnumerate(tgt[c])'
               /\ IsRange1N(Registered(tgt[c]))'
               /\ start'[c].rows # <<>>
               /\ ~start'[c].rows[1].dirty
               /\ pc'[c] \in {"exec", "advance", "markdirty", "done"}
               /\ result'[c].kind \notin {"db", "duplicate", "gap"} )
             => /\ LogIndices(c)' = Ascending(start'[c].rows[1].version, Len(runLog'[c]))
                /\ result'[c] = Nil =>
                     rows' = <<[version |-> Len(Registered(tgt[c])'), dirty |-> FALSE]>>]_vars

\* ---------------------------------------------------------------- C20
\* C20: a Run that has returned a discovery, duplicate-index or index-gap
\* error has not touched the store: the schema table exists only if it did
\* when the Run began, its rows are those the Run found, and no handler has
\* been invoked.
C20_ValidationBeforeStore ==
    \A c \in Callers :
        (Done(c) /\ result[c].kind \in {"discovery", "duplicate", "gap"})
        => /\ tableExists = start[c].table
           /\ rows = start[c].rows
           /\ runLog[c] = <<>>
           /\ schema[c] = ZeroSchema

\* the first Run ever, over direct handlers 0 and 2, has returned the gap
\* error and the schema table has not been created
C20_Witness ==
    \E c \in Callers :
        /\ Done(c)
        /\ direct[tgt[c]] = <<2, 0>>
        /\ executors[tgt[c]] = <<>>
        /\ result[c] = Err("gap", {0})
        /\ ~start[c].table
        /\ ~tableExists
        /\ rows = <<>>

====
